---- MODULE Spec2Model ----
(***************************************************************************)
(* State-machine model of DocuMind AI: the FAISS collection store          *)
(* (vector_store.py), the document loader (document_processor.py), the     *)
(* RAG pipeline (rag_engine.py) and the Streamlit handlers (app.py).       *)
(*                                                                         *)
(* Durable state is the directory ./faiss_index with its three files.      *)
(* store_documents and clear_collection are modelled step by step (one     *)
(* action per embedding call, per file write, per unlink), because the     *)
(* process can fail or stop between these steps.  There is one thread of   *)
(* control (pc): a call that has begun runs its steps in program order.    *)
(*                                                                         *)
(* Vectors are pairs of integers.  A normalised vector is stored scaled by *)
(* Scale, so that inner products of normalised vectors are exact integers  *)
(* (in units of 1/Scale^2).                                                *)
(***************************************************************************)
EXTENDS Integers, Sequences, FiniteSets, TLC

\* ------------------------------------------------------------------ bounds
MaxChunks == 2      \* longest chunk list handed to store_documents
MaxK == 3           \* largest n_results handed to search_similar_chunks

\* --------------------------------------------------------------- constants
TOP_K_RESULTS == 5
Scale == 5

INDEX_PATH == "index.faiss"
METADATA_PATH == "metadata.json"
TEXTS_PATH == "texts.pkl"
Paths == {INDEX_PATH, TEXTS_PATH, METADATA_PATH}

\* ------------------------------------------------------------ input domain
Texts == {"t1", "t2"}
Queries == {"q1", "q2"}
FileNames == {"a.txt", "b.pdf", "c.docx"}

\* The embedding service: a deterministic function of the text and of the
\* task type; whether a call fails is decided by the calling action.
get_embedding(text) ==
    IF text = "t1" THEN <<1, 0>> ELSE <<3, 4>>

get_query_embedding(text) ==
    IF text = "q1" THEN <<0, 2>> ELSE <<3, 4>>

\* Number of characters of a chunk text (len(chunk.page_content)).
CharLen(text) ==
    IF text = "t1" THEN 900 ELSE 1000

\* ----------------------------------------------------------------- helpers
Min(a, b) == IF a < b THEN a ELSE b

Digits == <<"0", "1", "2", "3", "4", "5", "6", "7", "8", "9">>

\* Python's str() of a non-negative integer.
RECURSIVE Str(_)
Str(n) ==
    IF n < 10 THEN Digits[n + 1]
    ELSE Str(n \div 10) \o Digits[(n % 10) + 1]

Dot(u, v) == u[1] * v[1] + u[2] * v[2]

ISqrt(x) == CHOOSE r \in 0..x : r * r <= x /\ (r + 1) * (r + 1) > x

\* faiss.normalize_L2 on one row: a zero row is left as it is.
normalize_L2(v) ==
    LET nr == ISqrt(Dot(v, v))
    IN  IF nr = 0 THEN v
        ELSE <<(v[1] * Scale) \div nr, (v[2] * Scale) \div nr>>

\* ------------------------------------------------------------------- files
Absent == [exists |-> FALSE, data |-> <<>>]
FileOf(content) == [exists |-> TRUE, data |-> content]

EmptyDisk == [dir |-> FALSE, files |-> [p \in Paths |-> Absent]]

\* os.path.exists(path) for one of the three files
Exists(d, p) == d.dir /\ d.files[p].exists

\* The three persisted artifacts, as an observer of the storage sees them.
Artifacts(d) == [p \in Paths |-> IF Exists(d, p) THEN d.files[p] ELSE Absent]

\* The storage holds no collection, or three files of the same length.
Healthy(d) ==
    \/ \A p \in Paths : ~Exists(d, p)
    \/ /\ \A p \in Paths : Exists(d, p)
       /\ Len(d.files[INDEX_PATH].data) = Len(d.files[TEXTS_PATH].data)
       /\ Len(d.files[TEXTS_PATH].data) = Len(d.files[METADATA_PATH].data)

\* ------------------------------------------------------- document loading
\* The content of an uploaded file: the chunk texts the loader and the text
\* splitter cut it into (one page per chunk for a PDF).
Pieces == UNION {[1..n -> Texts] : n \in 0..MaxChunks}

\* os.path.splitext(name)[1].lower()
Extension(name) ==
    IF name = "a.txt" THEN ".txt"
    ELSE IF name = "b.pdf" THEN ".pdf"
    ELSE ".docx"

\* chunk.metadata has no "page" key (pages are numbered from 0).
NoPage == -1

\* load_and_split_document on a supported file: name is uploaded_file.name,
\* pieces is what uploaded_file.getvalue() is cut into.  A text file is one
\* Document whose metadata is {source: name}; a PDF gives one Document per
\* page with the temporary path as source and the page number.
load_and_split_document(name, pieces) ==
    [i \in 1..Len(pieces) |->
        IF Extension(name) = ".pdf"
        THEN [page_content |-> pieces[i], source |-> "tmp.pdf", page |-> i - 1]
        ELSE [page_content |-> pieces[i], source |-> name, page |-> NoPage]]

Supported(name) == Extension(name) \in {".pdf", ".txt"}

RECURSIVE SumLen(_)
SumLen(cs) ==
    IF cs = <<>> THEN 0 ELSE CharLen(Head(cs).page_content) + SumLen(Tail(cs))

get_document_stats(cs) ==
    [total_chunks |-> Len(cs),
     total_characters |-> SumLen(cs),
     avg_chunk_size |-> IF Len(cs) > 0 THEN SumLen(cs) \div Len(cs) ELSE 0]

\* The chunk lists a caller can hand to store_documents: lists over two
\* chunks, one as a text file gives them, one as a PDF page gives them.
ChunkSet ==
    {[page_content |-> "t1", source |-> "a.txt", page |-> NoPage],
     [page_content |-> "t2", source |-> "tmp.pdf", page |-> 0]}
ChunkLists == UNION {[1..n -> ChunkSet] : n \in 0..MaxChunks}

TiePolicies == {"lowest", "highest"}

\* --------------------------------------------------------------- variables
VARIABLES
    disk,             \* ./faiss_index: [dir, files]
    pc,               \* position of the single thread of control
    caller,           \* who called the running store/clear: "api", "process", "cleardoc"
    chunks,           \* store_documents: its argument
    texts,            \* store_documents: local list texts
    embeddings,       \* store_documents: local list embeddings
    metadatas,        \* store_documents: local list metadatas
    index,            \* store_documents: rows of the FAISS index built in memory
    uploaded_file,    \* name of the file of the running Process Document interaction
    document_loaded,  \* st.session_state.document_loaded
    document_name,    \* st.session_state.document_name
    result,           \* outcome of the last completed operation
    pre,              \* the storage as it was when the last operation began
    beforeRestart     \* the search outcome observed right before the last restart

locals == <<chunks, texts, embeddings, metadatas, index>>
session == <<document_loaded, document_name>>
vars == <<disk, pc, caller, chunks, texts, embeddings, metadatas, index,
          uploaded_file, document_loaded, document_name, result, pre,
          beforeRestart>>

NoFileSelected == ""
NoResult == [op |-> "none", status |-> "none", value |-> <<>>, embedCalls |-> 0, genCalls |-> 0]

Outcome(op, status, value, ec, gc) ==
    [op |-> op, status |-> status, value |-> value, embedCalls |-> ec, genCalls |-> gc]

\* ------------------------------------------------------------------ search
\* index.search(query, n) of IndexFlatIP returns exactly n labels: the rows
\* of largest inner product by descending score, rows of equal score in the
\* order the library fixes (tiePolicy), then label -1 for every place the
\* index has no row for.  Labels are 0-based ordinals.
Better(rows, q, i, j, tp) ==
    \/ Dot(q, rows[i + 1]) > Dot(q, rows[j + 1])
    \/ /\ Dot(q, rows[i + 1]) = Dot(q, rows[j + 1])
       /\ IF tp = "lowest" THEN i < j ELSE i > j

RECURSIVE IndexSearch(_, _, _, _, _)
IndexSearch(rows, q, n, remaining, tp) ==
    IF n = 0 THEN <<>>
    ELSE IF remaining = {}
    THEN <<[idx |-> -1, score |-> 0]>> \o IndexSearch(rows, q, n - 1, remaining, tp)
    ELSE LET best == CHOOSE i \in remaining :
                        \A j \in remaining \ {i} : Better(rows, q, i, j, tp)
         IN  <<[idx |-> best, score |-> Dot(q, rows[best + 1])]>>
                \o IndexSearch(rows, q, n - 1, remaining \ {best}, tp)

IsHit(label) == label.idx # -1

\* The join of the labels against the side tables (lines 105-112): label -1
\* is skipped; a label beyond a side table raises IndexError.  The field
\* ordinal records the label joined, it is not part of the returned dict.
JoinResults(labels, txts, metas) ==
    LET hits == SelectSeq(labels, IsHit)
    IN  IF \E h \in 1..Len(hits) :
               hits[h].idx + 1 > Len(txts) \/ hits[h].idx + 1 > Len(metas)
        THEN [status |-> "IndexError", value |-> <<>>]
        ELSE [status |-> "ok",
              value |-> [h \in 1..Len(hits) |->
                           [text |-> txts[hits[h].idx + 1],
                            metadata |-> metas[hits[h].idx + 1],
                            similarity_score |-> hits[h].score,
                            ordinal |-> hits[h].idx]]]

\* Mutant of search_similar_chunks: the os.path.exists test of lines 87-88
\* is missing, so faiss.read_index is called on a file that is not there.
search_similar_chunks_NoExistsCheck(d, query, n_results, embedOk, tp) ==
    IF ~Exists(d, INDEX_PATH) THEN Outcome("search", "RuntimeError", <<>>, 0, 0)
    ELSE IF ~Exists(d, TEXTS_PATH) \/ ~Exists(d, METADATA_PATH)
    THEN Outcome("search", "FileNotFoundError", <<>>, 0, 0)
    ELSE IF ~embedOk THEN Outcome("search", "EmbeddingServiceError", <<>>, 1, 0)
    ELSE
      LET rows == d.files[INDEX_PATH].data
          txts == d.files[TEXTS_PATH].data
          metas == d.files[METADATA_PATH].data
          q == normalize_L2(get_query_embedding(query))
          n == Min(n_results, Len(txts))
          labels == IndexSearch(rows, q, n, 0..(Len(rows) - 1), tp)
          joined == JoinResults(labels, txts, metas)
      IN  Outcome("search", joined.status, joined.value, 1, 0)

\* Mutant of search_similar_chunks: n_results is handed to index.search
\* unclamped and every label is joined, also -1 (which Python reads as the
\* last element of the side tables).
search_similar_chunks_NoClamp(d, query, n_results, embedOk, tp) ==
    IF ~Exists(d, INDEX_PATH) THEN Outcome("search", "ok", <<>>, 0, 0)
    ELSE IF ~Exists(d, TEXTS_PATH) \/ ~Exists(d, METADATA_PATH)
    THEN Outcome("search", "FileNotFoundError", <<>>, 0, 0)
    ELSE IF ~embedOk THEN Outcome("search", "EmbeddingServiceError", <<>>, 1, 0)
    ELSE
      LET rows == d.files[INDEX_PATH].data
          txts == d.files[TEXTS_PATH].data
          metas == d.files[METADATA_PATH].data
          q == normalize_L2(get_query_embedding(query))
          labels == IndexSearch(rows, q, n_results, 0..(Len(rows) - 1), tp)
          At(t, idx) == IF idx = -1 THEN t[Len(t)] ELSE t[idx + 1]
      IN  IF txts = <<>> \/ metas = <<>>
             \/ \E h \in 1..Len(labels) :
                   labels[h].idx + 1 > Len(txts) \/ labels[h].idx + 1 > Len(metas)
          THEN Outcome("search", "IndexError", <<>>, 1, 0)
          ELSE Outcome("search", "ok",
                       [h \in 1..Len(labels) |->
                           [text |-> At(txts, labels[h].idx),
                            metadata |-> At(metas, labels[h].idx),
                            similarity_score |-> labels[h].score,
                            ordinal |-> IF labels[h].idx = -1 THEN Len(txts) - 1
                                        ELSE labels[h].idx]],
                       1, 0)

\* search_similar_chunks(query, n_results) on storage d; embedOk tells
\* whether the embedding service answers the query embedding call.
search_similar_chunks(d, query, n_results, embedOk, tp) ==
    IF ~Exists(d, INDEX_PATH) THEN Outcome("search", "ok", <<>>, 0, 0)
    ELSE IF ~Exists(d, TEXTS_PATH) \/ ~Exists(d, METADATA_PATH)
    THEN Outcome("search", "FileNotFoundError", <<>>, 0, 0)
    ELSE IF ~embedOk THEN Outcome("search", "EmbeddingServiceError", <<>>, 1, 0)
    ELSE
      LET rows == d.files[INDEX_PATH].data
          txts == d.files[TEXTS_PATH].data
          metas == d.files[METADATA_PATH].data
          q == normalize_L2(get_query_embedding(query))
          n == Min(n_results, Len(txts))
          labels == IndexSearch(rows, q, n, 0..(Len(rows) - 1), tp)
          joined == JoinResults(labels, txts, metas)
      IN  Outcome("search", joined.status, joined.value, 1, 0)

\* get_collection_count()
get_collection_count(d) ==
    IF ~Exists(d, TEXTS_PATH) THEN 0 ELSE Len(d.files[TEXTS_PATH].data)

\* Mutant of get_answer: no try/except around the answering service, its
\* failure propagates to the caller.
get_answer_Raises(d, question, embedOk, genOk, tp) ==
    LET found == search_similar_chunks(d, question, TOP_K_RESULTS, embedOk, tp)
    IN  IF found.status # "ok"
        THEN Outcome("answer", found.status, <<>>, found.embedCalls, 0)
        ELSE IF found.value = <<>>
        THEN Outcome("answer", "ok",
                     [answer |-> "No document found! Please upload a document first.",
                      sources |-> <<>>, relevant_chunks |-> <<>>],
                     found.embedCalls, 0)
        ELSE IF genOk
        THEN Outcome("answer", "ok",
                     [answer |-> "generated", sources |-> <<>>,
                      relevant_chunks |-> found.value],
                     found.embedCalls, 1)
        ELSE Outcome("answer", "GenerationServiceError", <<>>, found.embedCalls, 1)

\* get_answer(question): genOk tells whether the answering service answers.
get_answer(d, question, embedOk, genOk, tp) ==
    LET found == search_similar_chunks(d, question, TOP_K_RESULTS, embedOk, tp)
        relevant_chunks == found.value
    IN  IF found.status # "ok"
        THEN Outcome("answer", found.status, <<>>, found.embedCalls, 0)
        ELSE IF relevant_chunks = <<>>
        THEN Outcome("answer", "ok",
                     [answer |-> "No document found! Please upload a document first.",
                      sources |-> <<>>, relevant_chunks |-> <<>>],
                     found.embedCalls, 0)
        ELSE IF genOk
        THEN Outcome("answer", "ok",
                     [answer |-> "generated",
                      sources |-> [h \in 1..Len(relevant_chunks) |->
                          [page |-> relevant_chunks[h].metadata.page,
                           source |-> relevant_chunks[h].metadata.source,
                           similarity |-> (relevant_chunks[h].similarity_score * 100)
                                             \div (Scale * Scale),
                           preview |-> relevant_chunks[h].text \o "..."]],
                      relevant_chunks |-> relevant_chunks],
                     found.embedCalls, 1)
        ELSE Outcome("answer", "ok",
                     [answer |-> "Sorry, I encountered an error",
                      sources |-> <<>>, relevant_chunks |-> <<>>],
                     found.embedCalls, 1)

\* -------------------------------------------------------------------- Init
\* No collection has been stored, nothing is running, fresh session state.
Init ==
    /\ disk = EmptyDisk
    /\ pc = "idle"
    /\ caller = "api"
    /\ chunks = <<>>
    /\ texts = <<>>
    /\ embeddings = <<>>
    /\ metadatas = <<>>
    /\ index = <<>>
    /\ uploaded_file = NoFileSelected
    /\ document_loaded = FALSE
    /\ document_name = ""
    /\ result = NoResult
    /\ pre = EmptyDisk
    /\ beforeRestart = NoResult

ResetLocals ==
    /\ chunks' = <<>>
    /\ texts' = <<>>
    /\ embeddings' = <<>>
    /\ metadatas' = <<>>
    /\ index' = <<>>

\* An operation begins: remember the storage it started from.
Begin ==
    /\ pc = "idle"
    /\ pre' = disk

\* --------------------------------------------------------- store_documents
\* Entry of store_documents(cs): os.makedirs and the three empty lists.
EnterStore(cs) ==
    /\ disk' = [disk EXCEPT !.dir = TRUE]
    /\ chunks' = cs
    /\ texts' = <<>>
    /\ embeddings' = <<>>
    /\ metadatas' = <<>>
    /\ index' = <<>>
    /\ pc' = "embed"

\* store_documents raises: a direct caller sees the exception, the Process
\* Document handler catches it and shows st.error.
StoreRaises(err) ==
    /\ pc' = "done"
    /\ ResetLocals
    /\ result' = IF caller = "process"
                 THEN Outcome("process", "error", err, Len(texts), 0)
                 ELSE Outcome("store", err, <<>>, Len(texts), 0)
    /\ caller' = "api"
    /\ uploaded_file' = NoFileSelected

\* A caller invokes store_documents(cs) directly.
StoreDocuments(cs) ==
    /\ Begin
    /\ caller' = "api"
    /\ EnterStore(cs)
    /\ result' = NoResult
    /\ beforeRestart' = NoResult
    /\ UNCHANGED <<uploaded_file, session>>

\* One iteration of the loop: the embedding call answers.
StoreEmbed_TextsPrepended ==
    /\ pc = "embed"
    /\ Len(texts) < Len(chunks)
    /\ LET i == Len(texts)
           chunk == chunks[i + 1]
       IN  /\ texts' = <<chunk.page_content>> \o texts
           /\ embeddings' = Append(embeddings, get_embedding(chunk.page_content))
           /\ metadatas' = Append(metadatas,
                  [source |-> chunk.source,
                   page |-> IF chunk.page = NoPage THEN "unknown" ELSE Str(chunk.page),
                   chunk_index |-> Str(i)])
    /\ UNCHANGED <<disk, pc, caller, chunks, index, uploaded_file, session,
                   result, pre, beforeRestart>>

StoreEmbed ==
    /\ pc = "embed"
    /\ Len(texts) < Len(chunks)
    /\ LET i == Len(texts)
           chunk == chunks[i + 1]
       IN  /\ texts' = Append(texts, chunk.page_content)
           /\ embeddings' = Append(embeddings, get_embedding(chunk.page_content))
           /\ metadatas' = Append(metadatas,
                  [source |-> chunk.source,
                   page |-> IF chunk.page = NoPage THEN "unknown" ELSE Str(chunk.page),
                   chunk_index |-> Str(i)])
    /\ UNCHANGED <<disk, pc, caller, chunks, index, uploaded_file, session,
                   result, pre, beforeRestart>>

\* One iteration of the loop: the embedding call fails, the error propagates.
StoreEmbedFail ==
    /\ pc = "embed"
    /\ Len(texts) < Len(chunks)
    /\ StoreRaises("EmbeddingServiceError")
    /\ UNCHANGED <<disk, session, pre, beforeRestart>>

\* After the loop: build and fill the index.  embeddings[0] of an empty
\* list raises IndexError.
StoreBuild ==
    /\ pc = "embed"
    /\ Len(texts) = Len(chunks)
    /\ IF embeddings = <<>>
       THEN /\ StoreRaises("IndexError")
            /\ UNCHANGED <<disk, session, pre, beforeRestart>>
       ELSE /\ index' = [i \in 1..Len(embeddings) |-> normalize_L2(embeddings[i])]
            /\ pc' = "write_index"
            /\ UNCHANGED <<disk, caller, chunks, texts, embeddings, metadatas,
                           uploaded_file, session, result, pre, beforeRestart>>

\* faiss.write_index(index, INDEX_PATH)
StoreWriteIndex ==
    /\ pc = "write_index"
    /\ disk' = [disk EXCEPT !.files[INDEX_PATH] = FileOf(index)]
    /\ pc' = "write_texts"
    /\ UNCHANGED <<caller, locals, uploaded_file, session, result, pre,
                   beforeRestart>>

\* pickle.dump(texts, TEXTS_PATH)
StoreWriteTexts ==
    /\ pc = "write_texts"
    /\ disk' = [disk EXCEPT !.files[TEXTS_PATH] = FileOf(texts)]
    /\ pc' = "write_meta"
    /\ UNCHANGED <<caller, locals, uploaded_file, session, result, pre,
                   beforeRestart>>

\* json.dump(metadatas, METADATA_PATH), then return len(chunks)
StoreWriteMeta ==
    /\ pc = "write_meta"
    /\ disk' = [disk EXCEPT !.files[METADATA_PATH] = FileOf(metadatas)]
    /\ IF caller = "process"
       THEN /\ pc' = "process_finish"
            /\ UNCHANGED <<caller, locals, uploaded_file, result>>
       ELSE /\ pc' = "done"
            /\ result' = Outcome("store", "ok", Len(chunks), Len(texts), 0)
                              @@ [chunks |-> chunks]
            /\ ResetLocals
            /\ UNCHANGED <<caller, uploaded_file>>
    /\ UNCHANGED <<session, pre, beforeRestart>>

\* One of the three writes fails (the file cannot be opened for writing):
\* the file keeps its old content and the error propagates.
StoreWriteFail ==
    /\ pc \in {"write_index", "write_texts", "write_meta"}
    /\ StoreRaises("OSError")
    /\ UNCHANGED <<disk, session, pre, beforeRestart>>

\* -------------------------------------------------------- clear_collection
\* Entry of clear_collection(): nothing to do when the directory is absent.
ClearReturnsTo == IF caller' = "process" THEN "process_load"
                  ELSE IF caller' = "cleardoc" THEN "cleardoc_finish"
                  ELSE "done"

EnterClear ==
    /\ pc' = IF disk.dir THEN "rmtree" ELSE ClearReturnsTo
    /\ UNCHANGED disk

\* Mutant of ClearCollection: shutil.rmtree without the os.path.exists test
\* of line 120 raises when the directory is not there.
ClearCollection_NoExistsCheck ==
    /\ Begin
    /\ caller' = "api"
    /\ pc' = IF disk.dir THEN "rmtree" ELSE "done"
    /\ UNCHANGED disk
    /\ result' = IF disk.dir THEN NoResult
                 ELSE Outcome("clear", "FileNotFoundError", <<>>, 0, 0)
    /\ beforeRestart' = NoResult
    /\ UNCHANGED <<locals, uploaded_file, session>>

\* A caller invokes clear_collection() directly.
ClearCollection ==
    /\ Begin
    /\ caller' = "api"
    /\ EnterClear
    /\ result' = IF disk.dir THEN NoResult ELSE Outcome("clear", "ok", <<>>, 0, 0)
    /\ beforeRestart' = NoResult
    /\ UNCHANGED <<locals, uploaded_file, session>>

\* shutil.rmtree: unlink one entry of the directory (in listing order,
\* which the file system decides).
ClearUnlink(p) ==
    /\ pc = "rmtree"
    /\ disk.files[p].exists
    /\ disk' = [disk EXCEPT !.files[p] = Absent]
    /\ UNCHANGED <<pc, caller, locals, uploaded_file, session, result, pre,
                   beforeRestart>>

\* shutil.rmtree: the directory is empty, remove it; clear_collection returns.
ClearRmdir ==
    /\ pc = "rmtree"
    /\ \A p \in Paths : ~disk.files[p].exists
    /\ disk' = [disk EXCEPT !.dir = FALSE]
    /\ UNCHANGED caller
    /\ pc' = ClearReturnsTo
    /\ result' = IF caller = "api" THEN Outcome("clear", "ok", <<>>, 0, 0) ELSE result
    /\ UNCHANGED <<locals, uploaded_file, session, pre, beforeRestart>>

\* ------------------------------------------------------ read-only operations
\* A caller invokes search_similar_chunks(query, n_results).  tp is the
\* order in which the index library returns rows of equal score.
SearchSimilarChunks(query, n_results, embedOk, tp) ==
    /\ Begin
    /\ result' = search_similar_chunks(disk, query, n_results, embedOk, tp)
                    @@ [query |-> query, n_results |-> n_results, ties |-> tp]
    /\ beforeRestart' = IF /\ beforeRestart.op = "search"
                           /\ beforeRestart.query = query
                           /\ beforeRestart.n_results = n_results
                           /\ beforeRestart.ties = tp
                        THEN beforeRestart ELSE NoResult
    /\ pc' = "done"
    /\ UNCHANGED <<disk, caller, locals, uploaded_file, session>>

\* A caller invokes get_collection_count().
GetCollectionCount ==
    /\ Begin
    /\ result' = Outcome("count", "ok", get_collection_count(disk), 0, 0)
    /\ beforeRestart' = NoResult
    /\ pc' = "done"
    /\ UNCHANGED <<disk, caller, locals, uploaded_file, session>>

\* A caller invokes get_answer(question).
GetAnswer(question, embedOk, genOk, tp) ==
    /\ Begin
    /\ result' = get_answer(disk, question, embedOk, genOk, tp)
                    @@ [query |-> question, genOk |-> genOk, ties |-> tp]
    /\ beforeRestart' = NoResult
    /\ pc' = "done"
    /\ UNCHANGED <<disk, caller, locals, uploaded_file, session>>

\* ---------------------------------------------------------- app.py handlers
\* "Process Document" is pressed with the file called name selected: the
\* handler starts with clear_collection().
ProcessDocument(name) ==
    /\ Begin
    /\ caller' = "process"
    /\ uploaded_file' = name
    /\ EnterClear
    /\ result' = NoResult
    /\ beforeRestart' = NoResult
    /\ UNCHANGED <<locals, session>>

\* Process Document, after clear_collection: load_and_split_document, then
\* the entry of store_documents.  An unsupported extension raises
\* ValueError, which the handler catches and shows.
ProcessLoad(pieces) ==
    /\ pc = "process_load"
    /\ IF Supported(uploaded_file)
       THEN /\ EnterStore(load_and_split_document(uploaded_file, pieces))
            /\ UNCHANGED <<caller, uploaded_file, result>>
       ELSE /\ pc' = "done"
            /\ result' = Outcome("process", "error", "Unsupported file type", 0, 0)
            /\ caller' = "api"
            /\ uploaded_file' = NoFileSelected
            /\ UNCHANGED <<disk, locals>>
    /\ UNCHANGED <<session, pre, beforeRestart>>

\* Process Document, after store_documents returned: statistics and the
\* session state update.
ProcessFinish ==
    /\ pc = "process_finish"
    /\ document_loaded' = TRUE
    /\ document_name' = uploaded_file
    /\ result' = Outcome("process", "ok", get_document_stats(chunks), Len(texts), 0)
    /\ pc' = "done"
    /\ caller' = "api"
    /\ uploaded_file' = NoFileSelected
    /\ ResetLocals
    /\ UNCHANGED <<disk, pre, beforeRestart>>

\* "Clear Document" is pressed (the button exists only while a document is
\* loaded): the handler starts with clear_collection().
ClearDocument ==
    /\ Begin
    /\ document_loaded
    /\ caller' = "cleardoc"
    /\ EnterClear
    /\ result' = NoResult
    /\ beforeRestart' = NoResult
    /\ UNCHANGED <<locals, uploaded_file, session>>

\* Clear Document, after clear_collection returned: reset the session state.
ClearDocumentFinish ==
    /\ pc = "cleardoc_finish"
    /\ document_loaded' = FALSE
    /\ document_name' = ""
    /\ result' = Outcome("cleardoc", "ok", <<>>, 0, 0)
    /\ pc' = "done"
    /\ caller' = "api"
    /\ UNCHANGED <<disk, locals, uploaded_file, pre, beforeRestart>>

\* ------------------------------------------------------------------ return
\* The finished call or interaction has handed its outcome to its caller,
\* who is free to start the next one.
Return ==
    /\ pc = "done"
    /\ pc' = "idle"
    /\ result' = NoResult
    /\ pre' = disk
    /\ beforeRestart' = NoResult
    /\ UNCHANGED <<disk, caller, locals, uploaded_file, session>>

\* Mutant of Restart: the collection is kept in memory only, a restart
\* loses it.
Restart_LosesStorage ==
    /\ pc' = "idle"
    /\ caller' = "api"
    /\ ResetLocals
    /\ uploaded_file' = NoFileSelected
    /\ document_loaded' = FALSE
    /\ document_name' = ""
    /\ beforeRestart' = IF /\ pc = "done"
                           /\ result.op = "search"
                           /\ Healthy(disk)
                           /\ get_collection_count(disk) > 0
                        THEN result ELSE NoResult
    /\ result' = NoResult
    /\ pre' = EmptyDisk
    /\ disk' = EmptyDisk

\* ----------------------------------------------------------------- restart
\* The process stops (at any point) and is started again: everything in
\* memory is lost, the session state is initialised anew, the storage stays.
\* beforeRestart keeps what a search on a stored collection had just returned.
Restart ==
    /\ pc' = "idle"
    /\ caller' = "api"
    /\ ResetLocals
    /\ uploaded_file' = NoFileSelected
    /\ document_loaded' = FALSE
    /\ document_name' = ""
    /\ beforeRestart' = IF /\ pc = "done"
                           /\ result.op = "search"
                           /\ Healthy(disk)
                           /\ get_collection_count(disk) > 0
                        THEN result ELSE NoResult
    /\ result' = NoResult
    /\ pre' = disk
    /\ UNCHANGED disk

\* -------------------------------------------------------------------- Next
StoreSteps ==
    \/ StoreEmbed
    \/ StoreEmbedFail
    \/ StoreBuild
    \/ StoreWriteIndex
    \/ StoreWriteTexts
    \/ StoreWriteMeta
    \/ StoreWriteFail

ClearSteps ==
    \/ \E p \in Paths : ClearUnlink(p)
    \/ ClearRmdir

\* The collection store and the RAG pipeline, called directly.
Next ==
    \/ \E cs \in ChunkLists : StoreDocuments(cs)
    \/ StoreSteps
    \/ ClearCollection
    \/ ClearSteps
    \/ \E q \in Queries, k \in 1..MaxK, ok \in BOOLEAN, tp \in TiePolicies :
          SearchSimilarChunks(q, k, ok, tp)
    \/ GetCollectionCount
    \/ \E q \in Queries, eok \in BOOLEAN, gok \in BOOLEAN, tp \in TiePolicies :
          GetAnswer(q, eok, gok, tp)
    \/ Return
    \/ Restart

Spec == Init /\ [][Next]_vars

\* The application: the two sidebar handlers of app.py.
NextApp ==
    \/ \E name \in FileNames : ProcessDocument(name)
    \/ \E pieces \in Pieces : ProcessLoad(pieces)
    \/ StoreSteps
    \/ ProcessFinish
    \/ ClearDocument
    \/ ClearSteps
    \/ ClearDocumentFinish
    \/ Return
    \/ Restart

SpecApp == Init /\ [][NextApp]_vars

\* ================================================================== claims
NoArtifacts(d) == \A p \in Paths : ~Exists(d, p)

\* Number of entries of a persisted artifact (0 when it is absent).
Entries(d, p) == IF Exists(d, p) THEN Len(d.files[p].data) ELSE 0

\* Every search gives the same outcome on storage d1 as on storage d2.
SameSearches(d1, d2) ==
    \A q \in Queries, k \in 1..MaxK, tp \in TiePolicies :
        search_similar_chunks(d1, q, k, TRUE, tp) = search_similar_chunks(d2, q, k, TRUE, tp)

\* The (text, metadata) pairs of a search result, in order.
Pairs(value) == [h \in 1..Len(value) |-> <<value[h].text, value[h].metadata>>]

\* ---------------------------------------------------------------------- C1
\* C1: a store_documents call that does not complete successfully, in
\* particular one whose embedding call failed at some chunk, leaves the three
\* persisted artifacts, the count and every search result as they were before
\* the call: only a call that completes successfully changes durable state.
C1_OnlySuccessfulStoreChangesStorage ==
    (pc = "done" /\ result.op = "store" /\ result.status # "ok") =>
        /\ Artifacts(disk) = Artifacts(pre)
        /\ get_collection_count(disk) = get_collection_count(pre)
        /\ SameSearches(disk, pre)

\* The part of C1 about the embedding call: a store_documents call that ends
\* with an embedding error leaves artifacts, count and searches as before.
EmbeddingFailureKeepsStorage ==
    (pc = "done" /\ result.op = "store" /\ result.status = "EmbeddingServiceError") =>
        /\ Artifacts(disk) = Artifacts(pre)
        /\ get_collection_count(disk) = get_collection_count(pre)
        /\ SameSearches(disk, pre)

EmbeddingFailureSeen ==
    /\ pc = "done" /\ result.op = "store" /\ result.status = "EmbeddingServiceError"
    /\ result.embedCalls = MaxChunks - 1
    /\ get_collection_count(pre) > 0

\* ---------------------------------------------------------------------- C2
\* C2: at every point, also between the file writes of store_documents and
\* during clear_collection, the storage never shows an index file of N
\* entries while the texts file or the metadata file is absent or holds a
\* number of entries other than N.
C2_SideTablesMatchIndex ==
    Exists(disk, INDEX_PATH) =>
        \A p \in {TEXTS_PATH, METADATA_PATH} :
            /\ Exists(disk, p)
            /\ Len(disk.files[p].data) = Len(disk.files[INDEX_PATH].data)

\* ---------------------------------------------------------------------- C3
\* C3: store_documents called with the empty chunk list completes without
\* raising, and get_collection_count() is 0 afterwards.
C3_EmptyStoreSucceeds ==
    [][(pc = "embed" /\ caller = "api" /\ chunks = <<>> /\ pc' = "done") =>
          (result'.status = "ok" /\ get_collection_count(disk') = 0)]_vars

\* ---------------------------------------------------------------------- C4
\* C4: after every completed store_documents or clear_collection call,
\* successful or failed, the persisted texts, metadata records and index
\* vectors are equal in number (0 each when nothing is persisted).
C4_ThreeLengthsEqual ==
    (pc = "done" /\ result.op \in {"store", "clear"}) =>
        /\ Entries(disk, TEXTS_PATH) = Entries(disk, METADATA_PATH)
        /\ Entries(disk, METADATA_PATH) = Entries(disk, INDEX_PATH)

\* ---------------------------------------------------------------------- C5
\* C5: clear_collection never raises, with or without a persisted
\* collection; after it nothing is persisted, whatever was there before (so
\* a second call in a row leaves what the first left), the count is 0 and
\* every search returns the empty list.
C5_ClearLeavesNothing ==
    (pc = "done" /\ result.op = "clear") =>
        /\ result.status = "ok"
        /\ disk = EmptyDisk
        /\ (pre = EmptyDisk => disk = pre)
        /\ get_collection_count(disk) = 0
        /\ \A q \in Queries, k \in 1..MaxK, ok \in BOOLEAN, tp \in TiePolicies :
              LET found == search_similar_chunks(disk, q, k, ok, tp)
              IN  found.status = "ok" /\ found.value = <<>>

C5_Witness ==
    /\ pc = "done" /\ result.op = "clear"
    /\ get_collection_count(pre) = MaxChunks
    /\ Healthy(pre)

\* ---------------------------------------------------------------------- C6
\* C6: a search on a storage that holds no collection returns the empty
\* list for every query and every k, raises nothing and makes no embedding
\* call (whether or not the embedding service would answer).
C6_SearchOnNothing ==
    (pc = "done" /\ result.op = "search" /\ NoArtifacts(disk)) =>
        /\ result.status = "ok"
        /\ result.value = <<>>
        /\ result.embedCalls = 0

C6_Witness ==
    /\ pc = "done" /\ result.op = "search"
    /\ NoArtifacts(disk)
    /\ result.n_results = MaxK
    /\ result.value = <<>>

\* ---------------------------------------------------------------------- C7
\* C7: on a persisted collection of n >= 1 entries, a search with k >= 1
\* whose query embedding call is answered returns exactly min(k, n) results,
\* each joined to a different ordinal of 0..n-1.
C7_TopKClamp ==
    (/\ pc = "done" /\ result.op = "search"
     /\ result.status # "EmbeddingServiceError"
     /\ Healthy(disk) /\ get_collection_count(disk) >= 1) =>
        LET n == get_collection_count(disk)
        IN  /\ result.status = "ok"
            /\ Len(result.value) = Min(result.n_results, n)
            /\ \A h \in 1..Len(result.value) : result.value[h].ordinal \in 0..(n - 1)
            /\ \A g, h \in 1..Len(result.value) :
                  g # h => result.value[g].ordinal # result.value[h].ordinal

C7_Witness ==
    /\ pc = "done" /\ result.op = "search" /\ result.status = "ok"
    /\ Healthy(disk) /\ get_collection_count(disk) = MaxChunks
    /\ result.n_results > MaxChunks
    /\ Len(result.value) = MaxChunks

\* ---------------------------------------------------------------------- C8
\* C8: on a stored collection, a search made right before a process restart
\* and the same search (same query, same k, same order of equal scores in
\* the index library, embedding service answering as before) made after it
\* return the same (text, metadata) pairs in the same order.
C8_SameSearchAfterRestart ==
    (/\ pc = "done" /\ result.op = "search" /\ beforeRestart.op = "search"
     /\ result.query = beforeRestart.query
     /\ result.n_results = beforeRestart.n_results
     /\ result.ties = beforeRestart.ties
     /\ result.status # "EmbeddingServiceError"
     /\ beforeRestart.status # "EmbeddingServiceError") =>
        /\ result.status = beforeRestart.status
        /\ Pairs(result.value) = Pairs(beforeRestart.value)

C8_Witness ==
    /\ pc = "done" /\ result.op = "search" /\ beforeRestart.op = "search"
    /\ result.status = "ok" /\ beforeRestart.status = "ok"
    /\ Len(beforeRestart.value) = MaxChunks
    /\ Len(result.value) = MaxChunks

C10_DegradedAnswer ==
    (pc = "done" /\ result.op = "answer") =>
        LET found == search_similar_chunks(disk, result.query, TOP_K_RESULTS, TRUE,
                                           result.ties)
            retrieved == result.status # "EmbeddingServiceError" /\ found.status = "ok"
        IN  /\ (retrieved /\ found.value # <<>> /\ ~result.genOk) =>
                  /\ result.status = "ok"
                  /\ result.value.answer = "Sorry, I encountered an error"
                  /\ result.value.sources = <<>>
                  /\ result.value.relevant_chunks = <<>>
            /\ (retrieved /\ found.value = <<>>) =>
                  /\ result.status = "ok"
                  /\ result.value.answer = "No document found! Please upload a document first."
                  /\ result.value.sources = <<>>
                  /\ result.genCalls = 0

C10_Witness ==
    /\ pc = "done" /\ result.op = "answer" /\ result.status = "ok"
    /\ ~result.genOk
    /\ result.genCalls = 1
    /\ get_collection_count(disk) = MaxChunks /\ Healthy(disk)

\* ---------------------------------------------------------------------
\* C11  store_documents persists its argument, entry by entry, in order
\* ---------------------------------------------------------------------

\* A completed store_documents(chunks) call that returned, with n >= 1.
\* result.chunks is the argument of the call.
StoreSucceeded ==
    /\ pc = "done" /\ result.op = "store" /\ result.status = "ok"
    /\ Len(result.chunks) >= 1

\* An embedding as the service returned it, written in the units of the
\* index rows (a row r stands for the vector r / Scale).
Unnormalised(v) == <<v[1] * Scale, v[2] * Scale>>

\* The persisted collection is exactly cs, in input order, the vector at
\* ordinal i being Vec(embedding of cs[i]).
PersistedInOrder(d, cs, Vec(_)) ==
    /\ \A p \in Paths : Exists(d, p)
    /\ Len(d.files[TEXTS_PATH].data) = Len(cs)
    /\ Len(d.files[METADATA_PATH].data) = Len(cs)
    /\ Len(d.files[INDEX_PATH].data) = Len(cs)
    /\ \A k \in 1..Len(cs) :
          /\ d.files[TEXTS_PATH].data[k] = cs[k].page_content
          /\ d.files[METADATA_PATH].data[k].chunk_index = Str(k - 1)
          /\ d.files[METADATA_PATH].data[k].source = cs[k].source
          /\ d.files[METADATA_PATH].data[k].page =
                 (IF cs[k].page = NoPage THEN "unknown" ELSE Str(cs[k].page))
          /\ d.files[INDEX_PATH].data[k] = Vec(get_embedding(cs[k].page_content))

\* C11 as stated: after a successful store_documents(chunks) with n >= 1
\* chunks, whatever was persisted before, the persisted collection is
\* exactly the n entries of chunks in input order (text, metadata with
\* chunk_index = str(i), source and page of chunks[i], and as vector the
\* embedding of chunks[i]); the call returns n and get_collection_count()
\* returns n.
C11_StoredAsEmbedded ==
    StoreSucceeded =>
        /\ PersistedInOrder(disk, result.chunks, Unnormalised)
        /\ result.value = Len(result.chunks)
        /\ get_collection_count(disk) = Len(result.chunks)

\* C11 amended: the same, the vector at ordinal i being the L2-normalised
\* embedding of chunks[i] (faiss.normalize_L2 runs on the rows before
\* index.add), and the page being its string, "unknown" when the chunk
\* has none.
C11_StoredInInputOrder ==
    StoreSucceeded =>
        /\ PersistedInOrder(disk, result.chunks, normalize_L2)
        /\ result.value = Len(result.chunks)
        /\ get_collection_count(disk) = Len(result.chunks)

\* Two different chunks were stored over a different, non-empty collection.
C11_Witness ==
    /\ StoreSucceeded
    /\ Len(result.chunks) >= 2
    /\ result.chunks[1] # result.chunks[2]
    /\ Healthy(pre) /\ get_collection_count(pre) >= 1
    /\ pre.files[TEXTS_PATH].data # disk.files[TEXTS_PATH].data

\* ---------------------------------------------------------------------
\* C12  the session flag document_loaded and the persisted collection
\* ---------------------------------------------------------------------

\* The source load_and_split_document gives every chunk of a file of that
\* name: the temporary path for a PDF, the file name for a text file.
SourceOf(name) == IF Extension(name) = ".pdf" THEN "tmp.pdf" ELSE name

\* No handler is running: every interaction so far has ended.
BetweenInteractions == pc \in {"idle", "done"}

\* C12: after any sequence of Process Document and Clear Document
\* interactions, each succeeding or failing, whenever document_loaded is
\* true a non-empty collection is persisted (get_collection_count() > 0)
\* and it is the collection of the document named in document_name.
C12_LoadedMeansPersisted ==
    (BetweenInteractions /\ document_loaded) =>
        /\ get_collection_count(disk) > 0
        /\ \A p \in Paths : Exists(disk, p)
        /\ Healthy(disk)
        /\ \A k \in 1..Len(disk.files[METADATA_PATH].data) :
              disk.files[METADATA_PATH].data[k].source = SourceOf(document_name)

====
